---- MODULE Spec2Model ----
(***************************************************************************)
(* Dual-video synchronisation engine of VideoComparisonGallery             *)
(* (src/src/components/VideoComparison.tsx).                               *)
(*                                                                         *)
(* Times are in milliseconds (0.08 s = 80), playback rates in units of     *)
(* 1e-4 (rate 1 = 10000, a 5% nudge = 500).  One action is one browser     *)
(* task: an event handler or a frame callback together with the micro-     *)
(* tasks, the React re-render and the effects that it causes.              *)
(***************************************************************************)
EXTENDS Integers, Sequences, FiniteSets, TLC

\* ---------------------------------------------------------------- bounds
NumPairs == 2        \* length of the pairs prop
MaxGen == 1          \* pair switches explored (each mounts a fresh <video> pair)
MaxRestarts == 1     \* synchronized restarts awaiting their seeks at once
ClockStep == 200     \* granularity of performance.now() in the model
MaxNow == 200        \* last clock value explored
Dur == 200           \* duration of every clip, in ms

\* ------------------------------------------------------ program constants
HARD == 80
SOFT == 20
LOOP_GAP == 40
DEBOUNCE == 200
NEVER_LOOPED == -1
NORMAL_RATE == 10000
MIN_DELTA == 100
MAX_DELTA == 500
FRAME_OFFSET == 1

NoGen == -1          \* a null ref (leftRef.current === null)
NaN == -1            \* a duration that is not a finite number
Sides == {"L", "R"}
Gens == 0..MaxGen
Positions == {0, Dur \div 4, Dur}

Min2(a, b) == IF a <= b THEN a ELSE b
Max2(a, b) == IF a >= b THEN a ELSE b
Abs(x) == IF x < 0 THEN -x ELSE x
Other(s) == IF s = "L" THEN "R" ELSE "L"

\* useState(Math.min(Math.max(initialIndex, 0), pairs.length - 1))
ClampIndex(i) == Min2(Max2(i, 0), NumPairs - 1)

VARIABLES
  phase,         \* "rendered" (committed, effects not yet run), "mounted", "unmounted"
  hasVFC,        \* "requestVideoFrameCallback" in HTMLVideoElement
  dur,           \* duration of the clips once their metadata is known (ms, or NaN)
  active,        \* useState active
  isPlaying,     \* useState isPlaying
  gen,           \* which <video> pair leftRef/rightRef point to (key={active} remounts)
  els,           \* the <video> elements ever mounted: [gen][side]
  pending,       \* frame callbacks requested and neither run nor cancelled
  loopHandle,    \* loopHandle.current
  justLoopedAt,  \* justLoopedAt.current
  now,           \* performance.now()
  acts,          \* the loadAndStart call of each generation, where it is suspended
  restarts,      \* syncRestart calls suspended at their seeks
  ended,         \* the 'ended' listeners of the ended effect
  ops,           \* the media/scheduler calls made by the last task, in order
  burst,         \* history: first trigger of the current 200 ms window, restarts in it
  videosLoaded,  \* useState videosLoaded of the loading-state-tracking variant
  playRequests   \* that variant's Promise.allSettled([v1.play(), v2.play()]) not yet settled

galleryVars == <<videosLoaded, playRequests>>

vars == <<phase, hasVFC, dur, active, isPlaying, gen, els, pending, loopHandle,
          justLoopedAt, now, acts, restarts, ended, ops, burst, galleryVars>>

\* useState({ v1: false, v2: false })
NoneLoaded == [v1 |-> FALSE, v2 |-> FALSE]

NoHandle == [kind |-> "none", id |-> 0, g |-> NoGen]
NoEnded == [g |-> NoGen, cap |-> FALSE]
NoBurst == [start |-> NEVER_LOOPED - DEBOUNCE, done |-> 0]
FreshEl == [paused |-> TRUE, time |-> 0, rate |-> NORMAL_RATE, load |-> "loading"]
IdleAct == [pc |-> "Idle", play |-> FALSE, gotL |-> FALSE, gotR |-> FALSE,
            early |-> {}, lsn |-> {}, woke |-> 0,
            pL |-> "none", pR |-> "none", hist |-> <<>>]

\* the states a loadAndStart(true) passes through
ActivationOrder == <<"Loading", "Waiting", "Starting", "Looping">>

\* ------------------------------------------------------------ the store
\* A handler is a sequence of calls; each call maps a store to a store.
Store == [els |-> els, pending |-> pending, handle |-> loopHandle,
          jla |-> justLoopedAt, acts |-> acts, restarts |-> restarts,
          ip |-> isPlaying, ended |-> ended, burst |-> burst, ops |-> <<>>]

Op(o, g, s, k, a, b) == [op |-> o, g |-> g, s |-> s, k |-> k, a |-> a, b |-> b]
Log(S, rec) == [S EXCEPT !.ops = Append(@, rec)]

\* A play promise is settled once it is resolved or rejected.
Settled(p) == p \in {"resolved", "rejected"}
PromiseOf(a, s) == IF s = "L" THEN a.pL ELSE a.pR

\* v.pause(): sets paused and rejects the element's pending play promises
\* (the rejection is delivered by a later task).
Pause(S, g, s) ==
  LET a == S.acts[g]
      a2 == IF s = "L" /\ a.pL = "pending" THEN [a EXCEPT !.pL = "aborting"]
            ELSE IF s = "R" /\ a.pR = "pending" THEN [a EXCEPT !.pR = "aborting"]
            ELSE a
  IN Log([S EXCEPT !.els[g][s].paused = TRUE, !.acts[g] = a2],
         Op("pause", g, s, "", 0, 0))

\* The browser pauses a media element that was removed from the document.
\* Nothing reads the position or the rate of a detached element again (the
\* sync loop and both effects go through the refs), so they are not tracked.
RemovedFromDocument(S, g) ==
  LET a == S.acts[g]
  IN [S EXCEPT !.els[g]["L"].paused = TRUE, !.els[g]["R"].paused = TRUE,
               !.els[g]["L"].time = 0, !.els[g]["R"].time = 0,
               !.els[g]["L"].rate = NORMAL_RATE, !.els[g]["R"].rate = NORMAL_RATE,
               !.acts[g] = [a EXCEPT !.pL = IF a.pL = "pending" THEN "aborting" ELSE a.pL,
                                     !.pR = IF a.pR = "pending" THEN "aborting" ELSE a.pR]]

\* v.playbackRate = r
SetRate(S, g, s, r) ==
  Log([S EXCEPT !.els[g][s].rate = r], Op("rate", g, s, "", r, 0))

\* v.currentTime = t
SetTime(S, g, s, t) ==
  Log([S EXCEPT !.els[g][s].time = t], Op("seek", g, s, "", t, 0))

\* v.load(): restarts resource selection; readyState back to HAVE_NOTHING
Load(S, g, s) ==
  Log([S EXCEPT !.els[g][s] = [paused |-> TRUE, time |-> 0, rate |-> NORMAL_RATE,
                               load |-> "loading"]],
      Op("load", g, s, "", Cardinality(S.pending), 0))

\* v.play() whose promise nobody inspects: starts playback when the browser
\* allows it.  The positions of both streams at the call are logged.
Play(S, g, s, allowed) ==
  Log([S EXCEPT !.els[g][s].paused = IF allowed THEN FALSE ELSE @],
      Op("play", g, s, "", S.els[g]["L"].time, S.els[g]["R"].time))

\* ------------------------------------------------------- the sync loop
\* The id the browser returns: one not in use in that callback queue.
FreshId(S, kind, g) ==
  CHOOSE n \in 1..(Cardinality(S.pending) + 1) :
    \A c \in S.pending : ~(c.kind = kind /\ c.g = g /\ c.id = n)

\* L.cancelVideoFrameCallback(id) on the element leftRef points to
CancelVideoFrameCallback(S, rg, id) ==
  [S EXCEPT !.pending = {c \in @ : ~(c.kind = "vfc" /\ c.g = rg /\ c.id = id)}]

\* window.cancelAnimationFrame(id)
CancelAnimationFrame(S, id) ==
  [S EXCEPT !.pending = {c \in @ : ~(c.kind = "raf" /\ c.id = id)}]

\* The callback of the recorded handle that survives its cancellation is
\* marked (history only: the mark changes nothing the program reads).
MarkMissed(S, h) ==
  [S EXCEPT !.pending = {IF c.kind = h.kind /\ c.g = h.g /\ c.id = h.id
                         THEN [c EXCEPT !.missed = TRUE] ELSE c : c \in @}]

\* cancelSyncLoop; rg is leftRef.current at the call
CancelSyncLoop(S, rg) ==
  LET h == S.handle
  IN IF h = NoHandle THEN S
     ELSE LET viaVFC == h.kind = "vfc" /\ rg # NoGen /\ hasVFC
              S1 == IF viaVFC THEN CancelVideoFrameCallback(S, rg, h.id)
                    ELSE CancelAnimationFrame(S, h.id)
              hit == \E c \in S.pending \ S1.pending :
                       c.kind = h.kind /\ c.g = h.g /\ c.id = h.id
              S2 == Log(MarkMissed(S1, h),
                        Op("cancel", rg, h.kind, IF viaVFC THEN "vfc" ELSE "raf",
                           IF hit THEN 1 ELSE 0, 0))
          IN [S2 EXCEPT !.handle = NoHandle]

\* scheduleStep(step); cap is the isPlaying the step's syncRestart closed over
ScheduleStep(S, rg, cap) ==
  LET kind == IF rg # NoGen /\ hasVFC THEN "vfc" ELSE "raf"
      g == IF kind = "vfc" THEN rg ELSE NoGen
      id == FreshId(S, kind, g)
      cb == [kind |-> kind, g |-> g, id |-> id, cap |-> cap, missed |-> FALSE]
  IN Log([S EXCEPT !.pending = @ \cup {cb},
                   !.handle = [kind |-> kind, id |-> id, g |-> g]],
         Op("schedule", rg, "", kind, Cardinality(S.pending), 0))

\* startSyncLoop: cancelSyncLoop(); scheduleStep(step)
StartSyncLoop(S, rg, cap) == ScheduleStep(CancelSyncLoop(S, rg), rg, cap)

\* |diff| * 0.6 clamped to 1%..5%, in units of 1e-4 (diff in ms)
Delta(diff) == Min2(MAX_DELTA, Max2(MIN_DELTA, Abs(diff) * 6))

\* Mutant of the drift correction: the soft band slows or speeds the
\* reference instead of the follower.
DriftCorrectNudgesReference(S, rg) ==
  LET diff == S.els[rg]["R"].time - S.els[rg]["L"].time
  IN IF Abs(diff) >= HARD
       THEN SetTime(SetRate(S, rg, "R", NORMAL_RATE), rg, "R", S.els[rg]["L"].time)
     ELSE IF Abs(diff) >= SOFT
       THEN SetRate(S, rg, "L",
                    NORMAL_RATE - (IF diff < 0 THEN 1 ELSE -1) * Delta(diff))
     ELSE IF S.els[rg]["R"].rate # NORMAL_RATE
       THEN SetRate(S, rg, "R", NORMAL_RATE)
     ELSE S

\* Mutant of the drift correction: a drift of exactly HARD is still nudged.
DriftCorrectHardIsStrict(S, rg) ==
  LET diff == S.els[rg]["R"].time - S.els[rg]["L"].time
  IN IF Abs(diff) > HARD
       THEN SetTime(SetRate(S, rg, "R", NORMAL_RATE), rg, "R", S.els[rg]["L"].time)
     ELSE IF Abs(diff) >= SOFT
       THEN SetRate(S, rg, "R",
                    NORMAL_RATE + (IF diff < 0 THEN 1 ELSE -1) * Delta(diff))
     ELSE IF S.els[rg]["R"].rate # NORMAL_RATE
       THEN SetRate(S, rg, "R", NORMAL_RATE)
     ELSE S

\* Mutant of the drift correction: the nudge has the wrong sign.
DriftCorrectWrongSign(S, rg) ==
  LET diff == S.els[rg]["R"].time - S.els[rg]["L"].time
  IN IF Abs(diff) >= HARD
       THEN SetTime(SetRate(S, rg, "R", NORMAL_RATE), rg, "R", S.els[rg]["L"].time)
     ELSE IF Abs(diff) >= SOFT
       THEN SetRate(S, rg, "R",
                    NORMAL_RATE + (IF diff < 0 THEN -1 ELSE 1) * Delta(diff))
     ELSE IF S.els[rg]["R"].rate # NORMAL_RATE
       THEN SetRate(S, rg, "R", NORMAL_RATE)
     ELSE S

\* Mutant of the drift correction: below SOFT the rate is written every time.
DriftCorrectAlwaysWrites(S, rg) ==
  LET diff == S.els[rg]["R"].time - S.els[rg]["L"].time
  IN IF Abs(diff) >= HARD
       THEN SetTime(SetRate(S, rg, "R", NORMAL_RATE), rg, "R", S.els[rg]["L"].time)
     ELSE IF Abs(diff) >= SOFT
       THEN SetRate(S, rg, "R",
                    NORMAL_RATE + (IF diff < 0 THEN 1 ELSE -1) * Delta(diff))
     ELSE SetRate(S, rg, "R", NORMAL_RATE)

\* step, part 2: drift correction of R against L
DriftCorrect(S, rg) ==
  LET diff == S.els[rg]["R"].time - S.els[rg]["L"].time
  IN IF Abs(diff) >= HARD
       THEN SetTime(SetRate(S, rg, "R", NORMAL_RATE), rg, "R", S.els[rg]["L"].time)
     ELSE IF Abs(diff) >= SOFT
       THEN SetRate(S, rg, "R",
                    NORMAL_RATE + (IF diff < 0 THEN 1 ELSE -1) * Delta(diff))
     ELSE IF S.els[rg]["R"].rate # NORMAL_RATE
       THEN SetRate(S, rg, "R", NORMAL_RATE)
     ELSE S

\* history: a trigger at least DEBOUNCE after the window's first opens a new one
CountTrigger(S, performed) ==
  LET b == IF now - S.burst.start >= DEBOUNCE THEN [start |-> now, done |-> 0]
           ELSE S.burst
  IN [S EXCEPT !.burst = [b EXCEPT !.done = @ + (IF performed THEN 1 ELSE 0)]]

\* now - justLoopedAt.current < 200
Debounced(S) == now - S.jla < DEBOUNCE

\* seekTo(v, 0): 'seeked' and 'timeupdate' listeners registered, currentTime
\* set; the promise resolves on whichever of the two events comes first
SeekTo(S, g, s, t) == SetTime(S, g, s, t)

\* v.pause() on an element that is not paused queues a 'timeupdate' event
\* (and a 'pause' event); it is dispatched by a later task.
QueuesTimeUpdate(S, g, s) == ~S.els[g][s].paused

\* syncRestart up to its first await; cap is the isPlaying it closed over
SyncRestart(S, rg, cap) ==
  IF rg = NoGen THEN S
  ELSE IF ~cap THEN S
  ELSE IF Debounced(S) THEN Log(CountTrigger(S, FALSE), Op("trigger", rg, "", "skip", 0, 0))
  ELSE
    LET S0 == Log(CountTrigger([S EXCEPT !.jla = now], TRUE),
                  Op("trigger", rg, "", "restart", 0, 0))
        S1 == Pause(Pause(S0, rg, "L"), rg, "R")
        S2 == SetRate(SetRate(S1, rg, "L", NORMAL_RATE), rg, "R", NORMAL_RATE)
        S3 == SeekTo(SeekTo(S2, rg, "L", 0), rg, "R", 0)
        n == CHOOSE i \in 1..(Cardinality(S.restarts) + 1) :
               \A r \in S.restarts : r.n # i
    IN [S3 EXCEPT !.restarts = @ \cup
          {[n |-> n, g |-> rg, dL |-> FALSE, dR |-> FALSE, sk |-> {},
            tu |-> {s \in Sides : QueuesTimeUpdate(S, rg, s)}]}]

\* Does syncRestart get past its guards (and so suspend at the seeks)?
RestartPasses(S, rg, cap) == rg # NoGen /\ cap /\ ~Debounced(S)

\* Number.isFinite(d)
IsFinite(d) == d # NaN

\* L.duration: NaN until the metadata of the stream is known
Duration(S, g) == IF S.els[g]["L"].load = "ready" THEN dur ELSE NaN

\* Mutant of step: near the end it restarts and does not schedule itself again.
StepBodyStopsAtEnd(S, rg, cap) ==
  IF rg = NoGen THEN S
  ELSE LET L == S.els[rg]["L"]
           d == IF IsFinite(Duration(S, rg)) THEN Duration(S, rg) ELSE NaN
       IN IF IsFinite(d) /\ d > 0 /\ d - L.time <= LOOP_GAP
            THEN SyncRestart(S, rg, cap)
          ELSE ScheduleStep(DriftCorrect(S, rg), rg, cap)

\* step: one iteration of the sync loop
StepBody(S, rg, cap) ==
  IF rg = NoGen THEN S
  ELSE LET L == S.els[rg]["L"]
           d == IF IsFinite(Duration(S, rg)) THEN Duration(S, rg) ELSE NaN
       IN IF IsFinite(d) /\ d > 0 /\ d - L.time <= LOOP_GAP
            THEN ScheduleStep(SyncRestart(S, rg, cap), rg, cap)
          ELSE ScheduleStep(DriftCorrect(S, rg), rg, cap)

\* ------------------------------------------------- effects and activation
\* Mutant of the intent effect: pausing also rewinds both streams.
EffectIntentPauseRewinds(S, rg, aL, aR) ==
  IF rg = NoGen THEN S
  ELSE LET S0 == Log(S, Op("intent", rg, "", IF S.ip THEN "playing" ELSE "paused",
                           S.els[rg]["L"].time, S.els[rg]["R"].time))
       IN IF S.ip
            THEN LET t == Min2(S.els[rg]["L"].time, S.els[rg]["R"].time)
                     S1 == SetTime(SetTime(S0, rg, "L", t), rg, "R", t)
                     S2 == Play(Play(S1, rg, "L", aL), rg, "R", aR)
                 IN StartSyncLoop(S2, rg, S.ip)
          ELSE LET S1 == Pause(Pause(CancelSyncLoop(S0, rg), rg, "L"), rg, "R")
               IN [S1 EXCEPT !.els[rg]["L"].time = 0, !.els[rg]["R"].time = 0]

\* Mutant of the intent effect: resuming aligns to the stream that is ahead.
EffectIntentAlignsToMax(S, rg, aL, aR) ==
  IF rg = NoGen THEN S
  ELSE LET S0 == Log(S, Op("intent", rg, "", IF S.ip THEN "playing" ELSE "paused",
                           S.els[rg]["L"].time, S.els[rg]["R"].time))
       IN IF S.ip
            THEN LET t == Max2(S.els[rg]["L"].time, S.els[rg]["R"].time)
                     S1 == SetTime(SetTime(S0, rg, "L", t), rg, "R", t)
                     S2 == Play(Play(S1, rg, "L", aL), rg, "R", aR)
                 IN StartSyncLoop(S2, rg, S.ip)
          ELSE Pause(Pause(CancelSyncLoop(S0, rg), rg, "L"), rg, "R")

\* The intent effect (deps isPlaying, startSyncLoop, cancelSyncLoop)
EffectIntent(S, rg, aL, aR) ==
  IF rg = NoGen THEN S
  ELSE LET S0 == Log(S, Op("intent", rg, "", IF S.ip THEN "playing" ELSE "paused",
                           S.els[rg]["L"].time, S.els[rg]["R"].time))
       IN IF S.ip
            THEN LET t == Min2(S.els[rg]["L"].time, S.els[rg]["R"].time)
                     S1 == SetTime(SetTime(S0, rg, "L", t), rg, "R", t)
                     S2 == Play(Play(S1, rg, "L", aL), rg, "R", aR)
                 IN StartSyncLoop(S2, rg, S.ip)
          ELSE Pause(Pause(CancelSyncLoop(S0, rg), rg, "L"), rg, "R")

\* The ended effect (deps active, syncRestart): listeners on the current pair
EffectEnded(S, rg) ==
  [S EXCEPT !.ended = IF rg = NoGen THEN NoEnded ELSE [g |-> rg, cap |-> S.ip]]

\* setIsPlaying(v): re-render and run the effects whose deps changed
SetIsPlaying(S, rg, v, aL, aR) ==
  IF rg = NoGen \/ S.ip = v THEN S
  ELSE EffectEnded(EffectIntent([S EXCEPT !.ip = v], rg, aL, aR), rg)

\* loadAndStart after both play requests have settled
AfterPlay(S, g, rg, aL, aR) ==
  LET a == S.acts[g]
      failed == a.pL = "rejected" \/ a.pR = "rejected"
      S0 == Log(S, Op("settled", g, "", IF failed THEN "failed" ELSE "ok", 0, 0))
  IN IF ~failed
       THEN StartSyncLoop([S0 EXCEPT !.acts[g].pc = "Looping",
                                     !.acts[g].hist = Append(@, "Looping")],
                          rg, a.play)
     ELSE SetIsPlaying([S0 EXCEPT !.acts[g].pc = "Fallback"], rg, FALSE, aL, aR)

\* v.play() whose promise loadAndStart awaits
PlayTracked(S, g, s, allowed) ==
  LET S1 == Play(S, g, s, allowed)
      p == IF allowed THEN "pending" ELSE "rejected"
  IN IF s = "L" THEN [S1 EXCEPT !.acts[g].pL = p] ELSE [S1 EXCEPT !.acts[g].pR = p]

\* loadAndStart after waitBothReady; g is the pair it captured, rg the refs now
AfterReady(S, g, rg, aL, aR) ==
  LET a == S.acts[g]
      S0 == Log([S EXCEPT !.acts[g].woke = @ + 1],
                Op("ready", g, "", "", IF S.els[g]["L"].load = "ready" THEN 1 ELSE 0,
                   IF S.els[g]["R"].load = "ready" THEN 1 ELSE 0))
  IN IF ~a.play
       THEN LET S1 == SetTime(SetTime(S0, g, "L", FRAME_OFFSET), g, "R", FRAME_OFFSET)
            IN [S1 EXCEPT !.acts[g].pc = "Shown"]
     ELSE LET S1 == PlayTracked(PlayTracked(S0, g, "L", aL), g, "R", aR)
              S2 == [S1 EXCEPT !.acts[g].pc = "Starting",
                               !.acts[g].hist = Append(@, "Starting")]
          IN IF Settled(S2.acts[g].pL) /\ Settled(S2.acts[g].pR)
               THEN AfterPlay(S2, g, rg, aL, aR)
             ELSE S2

\* waitReady's test: v.readyState >= 2
ReadyNow(S, g, s) == S.els[g][s].load = "ready"

\* Mutant of the listener: it resolves its wait and stays registered.
OnLoadedDataStaysRegistered(S, g, s) ==
  IF ~ReadyNow(S, g, s) THEN S
  ELSE IF s = "L" THEN [S EXCEPT !.acts[g].gotL = TRUE]
  ELSE [S EXCEPT !.acts[g].gotR = TRUE]

\* The listener 'on' of waitReady(v), run for a 'loadeddata' event: with
\* readyState >= 2 it removes itself and resolves its wait.
OnLoadedData(S, g, s) ==
  IF ~ReadyNow(S, g, s) THEN S
  ELSE IF s = "L" THEN [S EXCEPT !.acts[g].lsn = @ \ {s}, !.acts[g].gotL = TRUE]
  ELSE [S EXCEPT !.acts[g].lsn = @ \ {s}, !.acts[g].gotR = TRUE]

\* await waitBothReady(), then the rest of loadAndStart: a stream that is
\* ready at the call is not waited for, the others get a listener.
WaitBothReady(S, rg, play, aL, aR) ==
  LET S1 == [S EXCEPT !.acts[rg] =
                [pc |-> "Waiting", play |-> play,
                 gotL |-> ReadyNow(S, rg, "L"), gotR |-> ReadyNow(S, rg, "R"),
                 early |-> {s \in Sides : ReadyNow(S, rg, s)},
                 lsn |-> {s \in Sides : ~ReadyNow(S, rg, s)}, woke |-> 0,
                 pL |-> "none", pR |-> "none", hist |-> <<"Loading", "Waiting">>]]
  IN IF S1.acts[rg].gotL /\ S1.acts[rg].gotR
       THEN AfterReady(S1, rg, rg, aL, aR)
     ELSE S1

\* pause, reset and load() one element
ResetAndLoad(S, g, s) ==
  Load(SetTime(SetRate(Pause(S, g, s), g, s, NORMAL_RATE), g, s, 0), g, s)

\* loadAndStart(play) up to its first await
LoadAndStart(S, rg, play, aL, aR) ==
  IF rg = NoGen THEN S
  ELSE LET S1 == CancelSyncLoop(Log(S, Op("activate", rg, "", "", 0, 0)), rg)
           S2 == ResetAndLoad(ResetAndLoad(S1, rg, "L"), rg, "R")
       IN WaitBothReady(S2, rg, play, aL, aR)

\* ------------------------------------------------------------- actions
Commit(S) ==
  /\ els' = S.els
  /\ pending' = S.pending
  /\ loopHandle' = S.handle
  /\ justLoopedAt' = S.jla
  /\ acts' = S.acts
  /\ restarts' = S.restarts
  /\ isPlaying' = S.ip
  /\ ended' = S.ended
  /\ burst' = S.burst
  /\ ops' = S.ops

RefGen == IF phase = "mounted" THEN gen ELSE NoGen

Init ==
  /\ phase = "rendered"
  /\ hasVFC \in BOOLEAN
  /\ dur = Dur
  /\ \E initialIndex \in {-1, 0} : active = ClampIndex(initialIndex)
  /\ isPlaying = TRUE
  /\ gen = 0
  /\ els = [g \in Gens |-> [s \in Sides |-> FreshEl]]
  /\ pending = {}
  /\ loopHandle = NoHandle
  /\ justLoopedAt = NEVER_LOOPED
  /\ now = 0
  /\ acts = [g \in Gens |-> IdleAct]
  /\ restarts = {}
  /\ ended = NoEnded
  /\ ops = <<>>
  /\ burst = NoBurst
  /\ videosLoaded = NoneLoaded
  /\ playRequests = {}

\* First run of the three effects after the first commit
Mount ==
  /\ phase = "rendered"
  /\ \E aL \in BOOLEAN, aR \in BOOLEAN :
       Commit(EffectEnded(EffectIntent(LoadAndStart(Store, gen, isPlaying, aL, aR),
                                       gen, aL, aR), gen))
  /\ phase' = "mounted"
  /\ UNCHANGED <<hasVFC, dur, active, gen, now, galleryVars>>

\* Mutant of the toggle: the [active] effect also depends on isPlaying, so a
\* change of intent runs its cleanup and activates the pair again.
TogglePlayReloads ==
  /\ phase = "mounted"
  /\ \E aL \in BOOLEAN, aR \in BOOLEAN :
       LET S1 == CancelSyncLoop([Store EXCEPT !.ip = ~isPlaying], gen)
           S2 == LoadAndStart(S1, gen, ~isPlaying, aL, aR)
       IN Commit(EffectEnded(EffectIntent(S2, gen, aL, aR), gen))
  /\ UNCHANGED <<phase, hasVFC, dur, active, gen, now, galleryVars>>

\* onClick={togglePlay}
TogglePlay ==
  /\ phase = "mounted"
  /\ \E aL \in BOOLEAN, aR \in BOOLEAN :
       Commit(SetIsPlaying(Store, gen, ~isPlaying, aL, aR))
  /\ UNCHANGED <<phase, hasVFC, dur, active, gen, now, galleryVars>>

\* onClick={() => setActive(i)} with i # active: key={active} remounts the
\* slider, the refs move to the new <video> pair, then the [active] cleanup,
\* the [active] effect and the ended effect run.
SetActive(i) ==
  /\ phase = "mounted"
  /\ i # active
  /\ gen < MaxGen
  /\ \E aL \in BOOLEAN, aR \in BOOLEAN :
       LET S1 == CancelSyncLoop(RemovedFromDocument(Store, gen), gen + 1)
           S2 == LoadAndStart(S1, gen + 1, isPlaying, aL, aR)
       IN Commit(EffectEnded(S2, gen + 1))
  /\ active' = i
  /\ gen' = gen + 1
  /\ UNCHANGED <<phase, hasVFC, dur, now, galleryVars>>

\* The component is removed: refs are detached, then the cleanups run
Unmount ==
  /\ phase = "mounted"
  /\ Commit(EffectEnded(CancelSyncLoop(RemovedFromDocument(Store, gen), NoGen), NoGen))
  /\ phase' = "unmounted"
  /\ UNCHANGED <<hasVFC, dur, active, gen, now, galleryVars>>

\* performance.now() moves on
AdvanceClock ==
  /\ now + ClockStep <= MaxNow
  /\ now' = now + ClockStep
  /\ ops' = <<>>
  /\ UNCHANGED <<phase, hasVFC, dur, active, isPlaying, gen, els, pending, loopHandle,
                 justLoopedAt, acts, restarts, ended, burst, galleryVars>>

\* 'loadeddata' on an element: readyState reaches HAVE_CURRENT_DATA
LoadedData(g, s) ==
  /\ phase # "rendered" /\ g <= gen
  /\ els[g][s].load = "loading"
  /\ \E aL \in BOOLEAN, aR \in BOOLEAN :
       LET S1 == [Store EXCEPT !.els[g][s].load = "ready"]
           listening == s \in S1.acts[g].lsn
           S2 == IF listening THEN OnLoadedData(S1, g, s) ELSE S1
       IN Commit(IF listening /\ S2.acts[g].gotL /\ S2.acts[g].gotR
                   THEN AfterReady(S2, g, RefGen, aL, aR)
                 ELSE S2)
  /\ UNCHANGED <<phase, hasVFC, dur, active, gen, now, galleryVars>>

\* 'error' on an element: the load failed, 'loadeddata' never comes
LoadError(g, s) ==
  /\ phase # "rendered" /\ g <= gen
  /\ els[g][s].load = "loading"
  /\ Commit([Store EXCEPT !.els[g][s].load = "error"])
  /\ UNCHANGED <<phase, hasVFC, dur, active, gen, now, galleryVars>>

\* A play promise of loadAndStart settles; the last one resumes loadAndStart
PlaySettle(g, s) ==
  /\ g <= gen
  /\ acts[g].pc = "Starting"
  /\ \/ PromiseOf(acts[g], s) = "pending" /\ ~els[g][s].paused
     \/ PromiseOf(acts[g], s) = "aborting"
  /\ \E aL \in BOOLEAN, aR \in BOOLEAN :
       LET r == IF PromiseOf(acts[g], s) = "pending" THEN "resolved" ELSE "rejected"
           S1 == IF s = "L" THEN [Store EXCEPT !.acts[g].pL = r]
                 ELSE [Store EXCEPT !.acts[g].pR = r]
       IN Commit(IF Settled(S1.acts[g].pL) /\ Settled(S1.acts[g].pR)
                   THEN AfterPlay(S1, g, RefGen, aL, aR)
                 ELSE S1)
  /\ UNCHANGED <<phase, hasVFC, dur, active, gen, now, galleryVars>>

\* Does the browser run this frame callback now?  requestAnimationFrame
\* callbacks run every frame, video-frame callbacks when the element they
\* were requested on presents a frame.
Fires(c) ==
  \/ c.kind = "raf"
  \/ c.kind = "vfc" /\ ~els[c.g]["L"].paused /\ els[c.g]["L"].load = "ready"

\* A scheduled sync-loop iteration runs
Step(c) ==
  /\ c \in pending
  /\ Fires(c)
  /\ RestartPasses(Store, RefGen, c.cap) => Cardinality(restarts) < MaxRestarts
  /\ LET S1 == Log([Store EXCEPT !.pending = @ \ {c}],
                   Op("step", c.g, "", c.kind, IF c.missed THEN 1 ELSE 0, 0))
     IN Commit(StepBody(S1, RefGen, c.cap))
  /\ UNCHANGED <<phase, hasVFC, dur, active, gen, now, galleryVars>>

\* 'ended' on a stream of the current pair; the browser has paused the
\* stream that reached its end before it fires the event
Ended(s) ==
  /\ phase = "mounted" /\ ended.g = gen
  /\ ~els[gen][s].paused /\ els[gen][s].load = "ready" /\ els[gen][s].time = dur
  /\ RestartPasses(Store, RefGen, ended.cap) => Cardinality(restarts) < MaxRestarts
  /\ Commit(SyncRestart(Log([Store EXCEPT !.els[gen][s].paused = TRUE],
                             Op("ended", gen, s, "", 0, 0)), RefGen, ended.cap))
  /\ UNCHANGED <<phase, hasVFC, dur, active, gen, now, galleryVars>>

\* The listener 'done' of a seekTo of restart r runs on side s, for 'seeked'
\* or for 'timeupdate': its promise resolves; after both, syncRestart goes on
\* to play both streams, whatever the two play promises do.
SeekToDone(S, r, s, aL, aR) ==
  LET r2 == IF s = "L" THEN [r EXCEPT !.dL = TRUE] ELSE [r EXCEPT !.dR = TRUE]
      S1 == [S EXCEPT !.restarts = (@ \ {r}) \cup {r2}]
      S2 == Log([S1 EXCEPT !.restarts = @ \ {r2}],
                Op("replay", r.g, "", "", IF "L" \in r.sk THEN 1 ELSE 0,
                   IF "R" \in r.sk THEN 1 ELSE 0))
  IN IF r2.dL /\ r2.dR THEN Play(Play(S2, r.g, "L", aL), r.g, "R", aR)
     ELSE S1

\* The seek of side s of restart r completes: 'timeupdate' and 'seeked' are
\* dispatched, after the events queued before them.  (Setting currentTime on
\* an element without data starts no seek.)
SeekDone(r, s) ==
  /\ r \in restarts
  /\ s \notin r.sk /\ s \notin r.tu
  /\ els[r.g][s].load = "ready"
  /\ \E aL \in BOOLEAN, aR \in BOOLEAN :
       LET r1 == [r EXCEPT !.sk = @ \cup {s}]
           S1 == [Store EXCEPT !.restarts = (@ \ {r}) \cup {r1}]
       IN Commit(IF (IF s = "L" THEN r.dL ELSE r.dR) THEN S1
                 ELSE SeekToDone(S1, r1, s, aL, aR))
  /\ UNCHANGED <<phase, hasVFC, dur, active, gen, now, galleryVars>>

\* The 'timeupdate' that pause() queued before the seek is dispatched to the
\* listeners seekTo registered.
TimeUpdate(r, s) ==
  /\ r \in restarts
  /\ s \in r.tu
  /\ \E aL \in BOOLEAN, aR \in BOOLEAN :
       LET r1 == [r EXCEPT !.tu = @ \ {s}]
           S1 == [Store EXCEPT !.restarts = (@ \ {r}) \cup {r1}]
       IN Commit(SeekToDone(S1, r1, s, aL, aR))
  /\ UNCHANGED <<phase, hasVFC, dur, active, gen, now, galleryVars>>

\* Playback of a stream of the current pair progresses
Advance(s) ==
  /\ phase = "mounted"
  /\ ~els[gen][s].paused /\ els[gen][s].load = "ready"
  /\ \E p \in Positions :
       /\ p > els[gen][s].time
       /\ Commit([Store EXCEPT !.els[gen][s].time = p])
  /\ UNCHANGED <<phase, hasVFC, dur, active, gen, now, galleryVars>>

\* One pair stays on screen: no thumbnail other than the active one is clicked.
Next ==
  \/ Mount
  \/ TogglePlay
  \/ Unmount
  \/ AdvanceClock
  \/ \E g \in Gens, s \in Sides : LoadedData(g, s)
  \/ \E g \in Gens, s \in Sides : LoadError(g, s)
  \/ \E g \in Gens, s \in Sides : PlaySettle(g, s)
  \/ \E c \in pending : Step(c)
  \/ \E s \in Sides : Ended(s)
  \/ \E r \in restarts, s \in Sides : SeekDone(r, s)
  \/ \E r \in restarts, s \in Sides : TimeUpdate(r, s)
  \/ \E s \in Sides : Advance(s)

Spec == Init /\ [][Next]_vars

\* Thumbnails are clicked while the streams load and start; the clock and the
\* playback positions stand still, so no stream reaches its end.
NextSwitch ==
  \/ Mount
  \/ TogglePlay
  \/ \E i \in 0..(NumPairs - 1) : SetActive(i)
  \/ Unmount
  \/ \E g \in Gens, s \in Sides : LoadedData(g, s)
  \/ \E g \in Gens, s \in Sides : PlaySettle(g, s)
  \/ \E c \in pending : Step(c)

SpecSwitch == Init /\ [][NextSwitch]_vars

\* The user toggles playback and clicks thumbnails while the streams load;
\* no frame callback runs and no play promise settles later than its request.
NextIntent ==
  \/ Mount
  \/ TogglePlay
  \/ \E i \in 0..(NumPairs - 1) : SetActive(i)
  \/ \E g \in Gens, s \in Sides : LoadedData(g, s)

SpecIntent == Init /\ [][NextIntent]_vars

\* One pair loads and starts.  Every load attempt ends (in 'error' or in
\* 'loadeddata') and every play promise settles; nothing obliges the user to
\* click.
NextLoading ==
  \/ Mount
  \/ TogglePlay
  \/ \E g \in Gens, s \in Sides : LoadedData(g, s)
  \/ \E g \in Gens, s \in Sides : LoadError(g, s)
  \/ \E g \in Gens, s \in Sides : PlaySettle(g, s)
  \/ \E c \in pending : Step(c)

SpecLoading ==
  /\ Init
  /\ [][NextLoading]_vars
  /\ WF_vars(\E g \in Gens, s \in Sides : LoadError(g, s) \/ LoadedData(g, s))
  /\ WF_vars(\E g \in Gens, s \in Sides : PlaySettle(g, s))

\* waitBothReady on its own: it is called once on a mounted pair whose
\* streams are in any state of readiness, and the rest of loadAndStart follows.
InitWait ==
  /\ phase = "mounted"
  /\ hasVFC \in BOOLEAN
  /\ dur = Dur
  /\ active = 0
  /\ isPlaying \in BOOLEAN
  /\ gen = 0
  /\ \E l \in {"loading", "ready"}, r \in {"loading", "ready"} :
       els = [g \in Gens |-> [s \in Sides |->
                [FreshEl EXCEPT !.load = IF g # 0 THEN "loading"
                                        ELSE IF s = "L" THEN l ELSE r]]]
  /\ pending = {}
  /\ loopHandle = NoHandle
  /\ justLoopedAt = NEVER_LOOPED
  /\ now = 0
  /\ acts = [g \in Gens |-> IdleAct]
  /\ restarts = {}
  /\ ended = NoEnded
  /\ ops = <<>>
  /\ burst = NoBurst
  /\ videosLoaded = NoneLoaded
  /\ playRequests = {}

\* await waitBothReady() in a loadAndStart(isPlaying) of the current pair
AwaitBothReady ==
  /\ phase = "mounted"
  /\ acts[gen].pc = "Idle"
  /\ \E aL \in BOOLEAN, aR \in BOOLEAN :
       Commit(WaitBothReady(Store, gen, isPlaying, aL, aR))
  /\ UNCHANGED <<phase, hasVFC, dur, active, gen, now, galleryVars>>

NextWait ==
  \/ AwaitBothReady
  \/ \E g \in Gens, s \in Sides : LoadedData(g, s)
  \/ \E g \in Gens, s \in Sides : LoadError(g, s)
  \/ \E g \in Gens, s \in Sides : PlaySettle(g, s)
  \/ \E c \in pending : Step(c)

SpecWait == InitWait /\ [][NextWait]_vars

\* One iteration of the sync loop on its own: a pair that is playing, with
\* the reference and the follower at any two positions, the follower at a
\* normal or a nudged rate, and an iteration scheduled.
DriftRefs == {0, Dur \div 2, Dur - LOOP_GAP - 1, Dur - LOOP_GAP, Dur}
DriftRates == {NORMAL_RATE - MAX_DELTA, NORMAL_RATE, NORMAL_RATE + MIN_DELTA}
Durations == {NaN, 0, Dur}

InitDrift ==
  /\ phase = "mounted"
  /\ hasVFC \in BOOLEAN
  /\ dur \in Durations
  /\ active = 0
  /\ isPlaying = TRUE
  /\ gen = 0
  /\ \E l \in DriftRefs, r \in 0..Dur, q \in DriftRates :
       els = [g \in Gens |-> [s \in Sides |->
                IF g # 0 THEN FreshEl
                ELSE [paused |-> FALSE, time |-> IF s = "L" THEN l ELSE r,
                      rate |-> IF s = "L" THEN NORMAL_RATE ELSE q,
                      load |-> "ready"]]]
  /\ LET kind == IF hasVFC THEN "vfc" ELSE "raf"
         g == IF hasVFC THEN 0 ELSE NoGen
     IN /\ pending = {[kind |-> kind, g |-> g, id |-> 1, cap |-> TRUE, missed |-> FALSE]}
        /\ loopHandle = [kind |-> kind, id |-> 1, g |-> g]
  /\ justLoopedAt = NEVER_LOOPED
  /\ now \in {0, MaxNow}
  /\ acts = [g \in Gens |->
               IF g # 0 THEN IdleAct
               ELSE [pc |-> "Looping", play |-> TRUE, gotL |-> TRUE, gotR |-> TRUE,
                     early |-> {}, lsn |-> {}, woke |-> 1,
                     pL |-> "resolved", pR |-> "resolved", hist |-> ActivationOrder]]
  /\ restarts = {}
  /\ ended = [g |-> 0, cap |-> TRUE]
  /\ ops = <<>>
  /\ burst = NoBurst
  /\ videosLoaded = NoneLoaded
  /\ playRequests = {}

NextDrift == \E c \in pending : Step(c)

SpecDrift == InitDrift /\ [][NextDrift]_vars

\* ------------------------------- the loading-state-tracking variant
\* (src/unnamed/part_000).  selectedIndex is the variable active, videoRef1
\* the side "L" and videoRef2 the side "R" of the mounted pair; an element's
\* load field is "loading", "metadata" (loadedmetadata fired), "ready"
\* (canplay fired) or "error".  React delivers a media event to the handlers
\* of mounted elements only, after the effects of the commit that mounted
\* them.

\* const SYNC_EPS = 0.12 (seconds)
SYNC_EPS == 120

Flag(s) == IF s = "L" THEN "v1" ELSE "v2"

\* videosLoaded.v1 && videosLoaded.v2
BothLoaded(vl) == vl.v1 /\ vl.v2

\* disabled={!(videosLoaded.v1 && videosLoaded.v2)} on the play/pause button
ToggleDisabled == ~BothLoaded(videosLoaded)

\* (!videosLoaded.v1 || !videosLoaded.v2) && <div>... Loading videos...</div>
LoadingShown == ~videosLoaded.v1 \/ ~videosLoaded.v2

\* handleVideoLoaded(n): setVideosLoaded(prev => ({...prev, [`v${n}`]: true}))
HandleVideoLoaded(vl, s) == [vl EXCEPT ![Flag(s)] = TRUE]

\* handleVideoError(n, error): an error counts as loaded
HandleVideoError(vl, s) == [vl EXCEPT ![Flag(s)] = TRUE]

\* pause() and the removal of an element reject its pending play promises
RejectPlays(reqs, g, ss) ==
  {IF r.g = g THEN [r EXCEPT !.rej = @ \cup ss] ELSE r : r \in reqs}

\* The effect keyed on [selectedIndex]; rg is videoRef1.current (both refs
\* are set together).  setVideosLoaded is applied by the calling action.
ResetSelection(S, rg) ==
  LET S1 == IF rg = NoGen THEN S
            ELSE Pause(Pause(SetTime(SetTime(S, rg, "L", 0), rg, "R", 0),
                             rg, "L"), rg, "R")
  IN [S1 EXCEPT !.ip = FALSE]

\* sync: the listener of v1's timeupdate and seeking events
Sync(S, rg) ==
  IF Abs(S.els[rg]["L"].time - S.els[rg]["R"].time) > SYNC_EPS
  THEN SetTime(S, rg, "R", S.els[rg]["L"].time)
  ELSE S

InitTracked ==
  /\ phase = "rendered"
  /\ hasVFC = TRUE
  /\ dur = Dur
  /\ active = 0
  /\ isPlaying = FALSE
  /\ gen = 0
  /\ els = [g \in Gens |-> [s \in Sides |-> FreshEl]]
  /\ pending = {}
  /\ loopHandle = NoHandle
  /\ justLoopedAt = NEVER_LOOPED
  /\ now = 0
  /\ acts = [g \in Gens |-> IdleAct]
  /\ restarts = {}
  /\ ended = NoEnded
  /\ ops = <<>>
  /\ burst = NoBurst
  /\ videosLoaded = NoneLoaded
  /\ playRequests = {}

\* First run of the effects: the clamp of selectedIndex, the selection
\* reset, the sync listeners.
MountTracked ==
  /\ phase = "rendered"
  /\ phase' = "mounted"
  /\ active' = Min2(active, NumPairs - 1)
  /\ Commit(ResetSelection(Store, gen))
  /\ videosLoaded' = NoneLoaded
  /\ UNCHANGED <<hasVFC, dur, gen, now, playRequests>>

\* handleThumbnailClick(index).  Another index changes the slider's key:
\* the pair is replaced and the [selectedIndex] effects run again.  The
\* selected index leaves the key and the effects' dependency as they are.
HandleThumbnailClick(index) ==
  /\ phase = "mounted"
  /\ IF index = active
     THEN /\ Commit([Store EXCEPT !.ip = FALSE])
          /\ videosLoaded' = NoneLoaded
          /\ UNCHANGED <<phase, hasVFC, dur, active, gen, now, playRequests>>
     ELSE /\ gen < MaxGen
          /\ gen' = gen + 1
          /\ active' = index
          /\ Commit(ResetSelection(RemovedFromDocument(Store, gen), gen + 1))
          /\ videosLoaded' = NoneLoaded
          /\ playRequests' = RejectPlays(playRequests, gen, Sides)
          /\ UNCHANGED <<phase, hasVFC, dur, now>>

\* togglePlayPause, the onClick of a button that is disabled until both
\* flags are set.  play() on a stream that failed to load rejects.
TogglePlayPause ==
  /\ phase = "mounted"
  /\ ~ToggleDisabled
  /\ IF isPlaying
     THEN /\ Commit([Pause(Pause(Store, gen, "L"), gen, "R") EXCEPT !.ip = FALSE])
          /\ playRequests' = RejectPlays(playRequests, gen, Sides)
     ELSE IF BothLoaded(videosLoaded)
     THEN /\ Commit(Play(Play(Store, gen, "L", els[gen]["L"].load # "error"),
                         gen, "R", els[gen]["R"].load # "error"))
          /\ playRequests' = playRequests \cup
               {[g |-> gen, rej |-> {s \in Sides : els[gen][s].load = "error"}]}
     ELSE UNCHANGED <<els, pending, loopHandle, justLoopedAt, acts, restarts,
                      isPlaying, ended, burst, ops, playRequests>>
  /\ UNCHANGED <<phase, hasVFC, dur, active, gen, now, videosLoaded>>

\* The continuation of Promise.allSettled([v1.play(), v2.play()]): a play
\* promise resolves once its stream is playing with data.
PlayAllSettled(r) ==
  /\ r \in playRequests
  /\ \A s \in Sides : \/ s \in r.rej
                      \/ ~els[r.g][s].paused /\ els[r.g][s].load = "ready"
  /\ Commit([Store EXCEPT !.ip = (r.rej = {})])
  /\ playRequests' = playRequests \ {r}
  /\ UNCHANGED <<phase, hasVFC, dur, active, gen, now, videosLoaded>>

\* onLoadedMetadata={() => handleVideoLoaded(n)}
OnLoadedMetadata(s) ==
  /\ phase = "mounted"
  /\ els[gen][s].load = "loading"
  /\ Commit([Store EXCEPT !.els[gen][s].load = "metadata"])
  /\ videosLoaded' = HandleVideoLoaded(videosLoaded, s)
  /\ UNCHANGED <<phase, hasVFC, dur, active, gen, now, playRequests>>

\* onCanPlay={() => handleVideoLoaded(n)}
OnCanPlay(s) ==
  /\ phase = "mounted"
  /\ els[gen][s].load = "metadata"
  /\ Commit([Store EXCEPT !.els[gen][s].load = "ready"])
  /\ videosLoaded' = HandleVideoLoaded(videosLoaded, s)
  /\ UNCHANGED <<phase, hasVFC, dur, active, gen, now, playRequests>>

\* onError={(e) => handleVideoError(n, e)}: the stream failed before it
\* became playable; its pending play promises reject.
OnError(s) ==
  /\ phase = "mounted"
  /\ els[gen][s].load \in {"loading", "metadata"}
  /\ Commit([Store EXCEPT !.els[gen][s].load = "error"])
  /\ videosLoaded' = HandleVideoError(videosLoaded, s)
  /\ playRequests' = RejectPlays(playRequests, gen, {s})
  /\ UNCHANGED <<phase, hasVFC, dur, active, gen, now>>

\* Playback of a looping stream moves its position (back to 0 at the end);
\* v1's timeupdate or seeking event then runs sync.
Playback(s) ==
  /\ phase = "mounted"
  /\ ~els[gen][s].paused /\ els[gen][s].load = "ready"
  /\ \E p \in Positions :
       /\ p > els[gen][s].time \/ (els[gen][s].time = dur /\ p = 0)
       /\ LET S1 == [Store EXCEPT !.els[gen][s].time = p]
          IN Commit(IF s = "L" THEN Sync(S1, gen) ELSE S1)
  /\ UNCHANGED <<phase, hasVFC, dur, active, gen, now, galleryVars>>

NextTracking ==
  \/ MountTracked
  \/ \E index \in 0..(NumPairs - 1) : HandleThumbnailClick(index)
  \/ TogglePlayPause
  \/ \E r \in playRequests : PlayAllSettled(r)
  \/ \E s \in Sides : OnLoadedMetadata(s)
  \/ \E s \in Sides : OnCanPlay(s)
  \/ \E s \in Sides : OnError(s)
  \/ \E s \in Sides : Playback(s)

SpecTracking == InitTracked /\ [][NextTracking]_vars

\* ---------------------------------------------------------------- claims
OpsOf(kind) == {i \in DOMAIN ops : ops[i].op = kind}
IsPrefix(s, t) == Len(s) <= Len(t) /\ \A i \in DOMAIN s : s[i] = t[i]

\* C1: never more than one sync-loop iteration is pending, over all media
\* elements, and no iteration is pending any more when an activation calls
\* load() on a stream.
C1_AtMostOneLoop ==
  /\ Cardinality(pending) <= 1
  /\ \A i \in OpsOf("load") : ops[i].a = 0

\* C2: no iteration runs after cancelSyncLoop was called for it.
C2_NoRunAfterCancel ==
  \A i \in OpsOf("step") : ops[i].a = 0

\* C3: a handle of kind 'vfc' is cancelled through cancelVideoFrameCallback
\* and a handle of kind 'raf' through cancelAnimationFrame, at every call of
\* cancelSyncLoop.
C3_MatchingPrimitive ==
  \A i \in OpsOf("cancel") : ops[i].k = ops[i].s

\* C4: an activation with autoplay passes Loading, Waiting, Starting, Looping
\* in this order, and no sync-loop iteration is scheduled while it is still
\* waiting for readiness or for its play requests.
C4_LoopOnlyOnSuccess ==
  \A g \in Gens :
    /\ IsPrefix(acts[g].hist, ActivationOrder)
    /\ (phase = "mounted" /\ g = gen /\ acts[g].play
          /\ acts[g].pc \in {"Waiting", "Starting"}) => pending = {}

\* C5: after an activation with autoplay saw a play request rejected, with
\* its effects run, the intent is paused, no iteration is pending, both
\* streams are paused and no play request was issued again.
C5_FallbackPaused ==
  \A i \in OpsOf("settled") :
    (phase = "mounted" /\ ops[i].k = "failed") =>
      /\ ~isPlaying
      /\ pending = {}
      /\ els[ops[i].g]["L"].paused /\ els[ops[i].g]["R"].paused
      /\ \A j \in OpsOf("play") : j < i

\* C6: a loadAndStart whose pair was replaced, resuming from its ready-wait
\* or from its play requests, schedules no iteration and runs no intent change.
C6_StaleActivationInert ==
  \A i \in OpsOf("ready") \cup OpsOf("settled") :
    (phase = "mounted" /\ ops[i].g < gen) =>
      \A j \in OpsOf("schedule") \cup OpsOf("intent") : j < i

\* C7: the triggers of one 200 ms window (the first one included) perform
\* exactly one pause / seek-to-zero / replay sequence between them.
C7_ExactlyOnePerWindow ==
  burst.start >= 0 => burst.done = 1

\* C8: syncRestart called while isPlaying is false does nothing.
C8_NoRestartWhilePaused ==
  (\E i \in OpsOf("trigger") : ops[i].k = "restart") => isPlaying

\* C9: the transition to paused, with a sync loop running, cancels the
\* recorded iteration, pauses both streams and does nothing else: positions
\* stay as they were, nothing is seeked or loaded.
C9_PauseTransition ==
  \A i \in OpsOf("intent") :
    (ops[i].k = "paused" /\ i < Len(ops) /\ ops[i + 1].op = "cancel") =>
      /\ Len(ops) = i + 3
      /\ ops[i + 1].a = 1
      /\ ops[i + 2] = Op("pause", ops[i].g, "L", "", 0, 0)
      /\ ops[i + 3] = Op("pause", ops[i].g, "R", "", 0, 0)
      /\ loopHandle = NoHandle
      /\ els[ops[i].g]["L"].paused /\ els[ops[i].g]["R"].paused
      /\ els[ops[i].g]["L"].time = ops[i].a
      /\ els[ops[i].g]["R"].time = ops[i].b

\* a loop was running and the intent went to paused
C9_Witness ==
  \E i \in OpsOf("intent") :
    /\ ops[i].k = "paused" /\ i < Len(ops) /\ ops[i + 1].op = "cancel"
    /\ ops[i].a # ops[i].b

\* C10: the transition to playing seeks both streams to the smaller of their
\* positions l, r, then requests play on both (both are at min(l, r) at the
\* first request), then starts the sync loop.
C10_PlayTransition ==
  \A i \in OpsOf("intent") :
    ops[i].k = "playing" =>
      LET g == ops[i].g
          m == Min2(ops[i].a, ops[i].b)
      IN /\ Len(ops) >= i + 5
         /\ ops[i + 1] = Op("seek", g, "L", "", m, 0)
         /\ ops[i + 2] = Op("seek", g, "R", "", m, 0)
         /\ ops[i + 3] = Op("play", g, "L", "", m, m)
         /\ ops[i + 4] = Op("play", g, "R", "", m, m)
         /\ \A j \in (i + 5)..Len(ops) : ops[j].op \in {"cancel", "schedule"}
         /\ ops[Len(ops)].op = "schedule"

\* the streams were apart (one of them ahead) when the intent went to playing
C10_Witness ==
  \E i \in OpsOf("intent") :
    ops[i].k = "playing" /\ ops[i].a # ops[i].b /\ ops[i].a > 0 /\ ops[i].b > 0

\* C11: pair activation (loadAndStart: load() on both streams, then the
\* ready-wait) runs in a task exactly when that task mounts the component or
\* changes the active index; a task that changes only isPlaying logs no
\* activation and no load() and puts no loadAndStart into its ready-wait.
C11_ToggleNeverActivates ==
  [][/\ (OpsOf("activate")' # {}) <=> (active' # active \/ phase = "rendered")
     /\ (isPlaying' # isPlaying /\ active' = active /\ phase = "mounted") =>
          /\ OpsOf("load")' = {}
          /\ \A g \in Gens : acts'[g].pc = "Waiting" => acts[g].pc = "Waiting"]_vars

\* the toggle was clicked: the task began with the intent effect, with a pair
\* activated before and its streams loaded
C11_Witness ==
  /\ Len(ops) > 0 /\ ops[1].op = "intent"
  /\ acts[gen].pc # "Idle"
  /\ els[gen]["L"].load = "ready"

\* C12: every activation that waits for readiness leaves its ready-wait,
\* also when the load of one of its streams ends in an error.
C12_ReadyGateResolves ==
  \A g \in Gens : (acts[g].pc = "Waiting") ~> (acts[g].pc # "Waiting")

\* C13: the wait of an activation for both streams resumes at most once and
\* only with both streams ready, whichever became ready first and whichever
\* were ready at the call; a 'loadeddata' listener that has run is no longer
\* registered, and none is registered once the wait has completed.
C13_ResolvesOnceNoLeak ==
  /\ \A g \in Gens :
       /\ acts[g].woke <= 1
       /\ (acts[g].woke = 1) <=> (acts[g].pc \notin {"Idle", "Waiting"})
       /\ acts[g].woke = 1 => acts[g].lsn = {}
       /\ \A s \in acts[g].lsn : els[g][s].load # "ready"
       /\ ~(acts[g].pc = "Waiting" /\ els[g]["L"].load = "ready"
              /\ els[g]["R"].load = "ready")
  /\ \A i \in OpsOf("ready") : ops[i].a = 1 /\ ops[i].b = 1

\* the right stream was ready at the call, the left one became ready later,
\* and the wait has completed
C13_Witness ==
  /\ acts[0].early = {"R"}
  /\ acts[0].woke = 1
  /\ Len(ops) > 0 /\ ops[1].op = "ready"

\* An iteration of the sync loop ran in the step just taken, with the refs set.
StepRan == phase = "mounted" /\ Len(ops') > 0 /\ ops'[1].op = "step"

\* The reference is within LOOP_GAP of the end of a finite, positive duration.
NearEnd ==
  /\ els[gen]["L"].load = "ready" /\ dur # NaN /\ dur > 0
  /\ dur - els[gen]["L"].time <= LOOP_GAP

\* follower position minus reference position, before the step
Drift == els[gen]["R"].time - els[gen]["L"].time

\* C14: the rate of the left stream is the normal rate in every state and no
\* call ever sets it to anything else; an iteration of the sync loop writes
\* the position of the left stream only inside a synchronized restart (the
\* seek of both streams to zero), never as a correction.
C14_LeftAuthoritative ==
  /\ \A g \in Gens : els[g]["L"].rate = NORMAL_RATE
  /\ \A i \in OpsOf("rate") : ops[i].s = "L" => ops[i].a = NORMAL_RATE
  /\ (Len(ops) > 0 /\ ops[1].op = "step") =>
       \A i \in OpsOf("seek") :
         ops[i].s = "L" =>
           /\ ops[i].a = 0
           /\ \E j \in OpsOf("trigger") : j < i /\ ops[j].k = "restart"

\* an iteration nudged the rate of the follower away from normal
C14_Witness ==
  /\ Len(ops) > 0 /\ ops[1].op = "step"
  /\ \E i \in OpsOf("rate") : ops[i].s = "R" /\ ops[i].a # NORMAL_RATE
  /\ els[gen]["R"].rate # NORMAL_RATE

\* C15: an iteration that finds the follower HARD or more away from the
\* reference, the reference not near its end, leaves the follower at the
\* position of the reference with the normal rate, and the reference where
\* it was.
C15_HardCorrection ==
  [][(StepRan /\ ~NearEnd /\ Abs(Drift) >= HARD) =>
       /\ els'[gen]["R"].time = els[gen]["L"].time
       /\ els'[gen]["R"].rate = NORMAL_RATE
       /\ els'[gen]["L"].time = els[gen]["L"].time]_vars

\* an iteration moved a follower that ran at a nudged rate onto a reference
\* in mid-clip (it was 100 ms behind or ahead)
C15_Witness ==
  /\ Len(ops) = 4 /\ ops[1].op = "step"
  /\ ops[2] = Op("rate", gen, "R", "", NORMAL_RATE, 0)
  /\ ops[3] = Op("seek", gen, "R", "", Dur \div 2, 0)
  /\ els[gen]["L"].time = Dur \div 2 /\ els[gen]["R"].time = Dur \div 2

\* C16: an iteration that finds a drift of at least SOFT and less than HARD,
\* the reference not near its end, leaves the position of the follower alone
\* and sets its rate between 1% and 5% off normal: slower when the follower
\* is ahead, faster when it is behind.
C16_SoftCorrection ==
  [][(StepRan /\ ~NearEnd /\ Abs(Drift) >= SOFT /\ Abs(Drift) < HARD) =>
       /\ els'[gen]["R"].time = els[gen]["R"].time
       /\ OpsOf("seek")' = {}
       /\ Drift > 0 => /\ els'[gen]["R"].rate >= NORMAL_RATE - MAX_DELTA
                       /\ els'[gen]["R"].rate <= NORMAL_RATE - MIN_DELTA
       /\ Drift < 0 => /\ els'[gen]["R"].rate >= NORMAL_RATE + MIN_DELTA
                       /\ els'[gen]["R"].rate <= NORMAL_RATE + MAX_DELTA]_vars

\* an iteration sped up a follower that was behind
C16_Witness ==
  /\ Len(ops) = 3 /\ ops[1].op = "step" /\ ops[2].op = "rate"
  /\ els[gen]["R"].rate > NORMAL_RATE
  /\ els[gen]["R"].time < els[gen]["L"].time

\* C17: an iteration that finds a drift below SOFT, the reference not near
\* its end, leaves the follower at the normal rate; when the rate was normal
\* already it writes neither the rate nor the position of the follower.
C17_Hysteresis ==
  [][(StepRan /\ ~NearEnd /\ Abs(Drift) < SOFT) =>
       /\ els'[gen]["R"].rate = NORMAL_RATE
       /\ els'[gen]["R"].time = els[gen]["R"].time
       /\ OpsOf("seek")' = {}
       /\ els[gen]["R"].rate = NORMAL_RATE => OpsOf("rate")' = {}
       /\ els[gen]["R"].rate # NORMAL_RATE =>
            \E i \in OpsOf("rate")' : ops'[i] = Op("rate", gen, "R", "", NORMAL_RATE, 0)]_vars

\* an iteration found a small drift at the normal rate and wrote nothing
C17_Witness ==
  /\ Len(ops) = 2 /\ ops[1].op = "step" /\ ops[2].op = "schedule"
  /\ els[gen]["R"].time # els[gen]["L"].time
  /\ Abs(els[gen]["R"].time - els[gen]["L"].time) < SOFT
  /\ els[gen]["L"].time = Dur \div 2

\* C18: a synchronized restart that passes its guards pauses both streams,
\* sets both rates to normal and seeks both to zero, in this order and with
\* no play request in that task; it requests play on the two streams later,
\* when the seek to zero has completed on both, and does nothing else then,
\* whether the browser allows the play requests or not.
C18_RestartOrder ==
  /\ \A i \in OpsOf("trigger") :
       ops[i].k = "restart" =>
         /\ Len(ops) >= i + 6
         /\ ops[i + 1] = Op("pause", ops[i].g, "L", "", 0, 0)
         /\ ops[i + 2] = Op("pause", ops[i].g, "R", "", 0, 0)
         /\ ops[i + 3] = Op("rate", ops[i].g, "L", "", NORMAL_RATE, 0)
         /\ ops[i + 4] = Op("rate", ops[i].g, "R", "", NORMAL_RATE, 0)
         /\ ops[i + 5] = Op("seek", ops[i].g, "L", "", 0, 0)
         /\ ops[i + 6] = Op("seek", ops[i].g, "R", "", 0, 0)
         /\ OpsOf("play") = {}
  /\ \A i \in OpsOf("replay") :
       /\ ops[i].a = 1 /\ ops[i].b = 1
       /\ i = 1 /\ Len(ops) = 3
       /\ ops[2].op = "play" /\ ops[2].g = ops[i].g /\ ops[2].s = "L"
       /\ ops[3].op = "play" /\ ops[3].g = ops[i].g /\ ops[3].s = "R"

\* C19: an iteration that runs with the refs set schedules exactly one next
\* iteration, as its last call, in either branch; it calls syncRestart, and
\* then corrects no drift, exactly when the duration of the reference is
\* finite and positive and the reference is within LOOP_GAP of its end; with
\* a duration that is not finite it calls no syncRestart and goes on.
C19_SelfReArming ==
  [][StepRan =>
       /\ Cardinality(OpsOf("schedule")') = 1
       /\ ops'[Len(ops')].op = "schedule"
       /\ Cardinality(pending') = 1 /\ loopHandle' # NoHandle
       /\ (OpsOf("trigger")' # {}) <=> NearEnd
       /\ NearEnd => /\ els'[gen]["R"].rate \in {els[gen]["R"].rate, NORMAL_RATE}
                     /\ els'[gen]["R"].time \in {els[gen]["R"].time, 0}
                     /\ \A i \in OpsOf("rate")' \cup OpsOf("seek")' :
                          \E j \in OpsOf("trigger")' : j < i /\ ops'[j].k = "restart"
       /\ dur = NaN => OpsOf("trigger")' = {}]_vars

\* an iteration near the end of the reference restarted both streams and
\* scheduled the next iteration
C19_Witness ==
  /\ Len(ops) > 2 /\ ops[1].op = "step"
  /\ ops[2].op = "trigger" /\ ops[2].k = "restart"
  /\ ops[Len(ops)].op = "schedule"
  /\ Cardinality(pending) = 1

\* C20: whenever the intent is paused (its effect has run), both streams of
\* the current pair are paused and no sync-loop iteration is pending, also
\* after a loadAndStart or a syncRestart that was suspended while the intent
\* was playing has resumed.
C20_PausedIntentRespected ==
  (phase = "mounted" /\ ~isPlaying) =>
    /\ els[gen]["L"].paused /\ els[gen]["R"].paused
    /\ pending = {}

\* A stream of the mounted pair has reported: loadedmetadata, canplay or
\* error has been dispatched to its handler.
Reported(s) == els[gen][s].load # "loading"

\* C21: in the loading-state-tracking variant, after any sequence of
\* thumbnail clicks and load/error events, the toggle control is enabled
\* and the loading indicator hidden exactly when both currently mounted
\* streams have reported loaded or errored, also after a click on the
\* thumbnail that is already selected.
C21_ToggleReflectsReadiness ==
  /\ ~ToggleDisabled <=> \A s \in Sides : Reported(s)
  /\ ~LoadingShown <=> \A s \in Sides : Reported(s)

====
